---- MODULE Spec2Model ----
(***************************************************************************)
(* Monster generation pipeline (monster_agent.py, my_agent/monster.py,     *)
(* my_agent/agent.py): the JSON extraction routine, the four stage         *)
(* functions and the linear graph that chains them.                        *)
(*                                                                         *)
(* Text is a sequence of one-character strings.  Parsed JSON values are    *)
(* tagged pairs <<tag, payload>> named after the Python types json.loads   *)
(* produces: "dict" (a function from key text to value), "list" (a         *)
(* sequence of values), "str" (text), "int", "bool", "none".               *)
(* The modelled JSON grammar is objects, arrays, strings without           *)
(* backslash escapes, integers and the literals true, false, null.         *)
(***************************************************************************)
EXTENDS Integers, Sequences, FiniteSets, TLC

VARIABLES x_wrap, x_body, x_pc, x_out,
          env_key, stdin, io, pc, node, state, passed, trace, calls, raised, result, files, twin

\* the variables of one _extract_json call
xvars == <<x_wrap, x_body, x_pc, x_out>>

\* the variables of one generate_amazing_monster run; io is what happened
\* on the terminal in the question loop of get_user_narrative_inputs, one
\* entry per question asked and per answer read; twin is a second run,
\* started with another initial concept and given the same input lines,
\* replies and random letters as the first; passed is what the
\* snapshot handed to the last stage run holds after that stage was left
pvars == <<env_key, stdin, io, pc, node, state, passed, trace, calls, raised, result, files, twin>>

vars == <<x_wrap, x_body, x_pc, x_out,
          env_key, stdin, io, pc, node, state, passed, trace, calls, raised, result, files, twin>>

(***************************************************************************)
(* Characters and elementary text operations.                              *)
(***************************************************************************)
Q == "\""

NL == "\n"

WS == {" ", "\n", "\t"}

Digits == {"0", "1", "2", "3", "4", "5", "6", "7", "8", "9"}

MinOf(S) == CHOOSE x \in S : \A y \in S : x <= y

MaxOf(S) == CHOOSE x \in S : \A y \in S : x >= y

\* the character at 1-based position i, "" beyond either end
At(t, i) == IF i >= 1 /\ i <= Len(t) THEN t[i] ELSE ""

\* first position >= i that holds no whitespace (Len(t)+1 when there is none)
SkipWs(t, i) ==
    IF i > Len(t) THEN Len(t) + 1
    ELSE IF t[i] \notin WS THEN i
    ELSE LET rest == {j \in i..Len(t) : t[j] \notin WS}
         IN IF rest = {} THEN Len(t) + 1 ELSE MinOf(rest)

\* str.strip()
strip(t) ==
    LET keep == {i \in 1..Len(t) : t[i] \notin WS}
    IN IF keep = {} THEN <<>> ELSE SubSeq(t, MinOf(keep), MaxOf(keep))

MatchesAt(t, pat, i) ==
    /\ i + Len(pat) - 1 <= Len(t)
    /\ \A k \in 1..Len(pat) : t[i + k - 1] = pat[k]

RECURSIVE RemoveFrom(_, _, _)
\* str.replace(pat, '') from position i on: every non-overlapping
\* occurrence, leftmost first
RemoveFrom(t, pat, i) ==
    LET occ == {j \in i..Len(t) : MatchesAt(t, pat, j)}
    IN IF occ = {} THEN SubSeq(t, i, Len(t))
       ELSE SubSeq(t, i, MinOf(occ) - 1) \o RemoveFrom(t, pat, MinOf(occ) + Len(pat))

replace_empty(t, pat) == RemoveFrom(t, pat, 1)

\* str.replace('\n', ' ')
replace_newlines(t) == [i \in 1..Len(t) |-> IF t[i] = NL THEN " " ELSE t[i]]

\* str.find(ch): 0-based index of the first occurrence, -1 when absent
find(t, ch) ==
    LET occ == {i \in 1..Len(t) : t[i] = ch}
    IN IF occ = {} THEN -1 ELSE MinOf(occ) - 1

\* str.rfind(ch): 0-based index of the last occurrence, -1 when absent
rfind(t, ch) ==
    LET occ == {i \in 1..Len(t) : t[i] = ch}
    IN IF occ = {} THEN -1 ELSE MaxOf(occ) - 1

\* t[a:b] for 0-based a, b >= 0
slice(t, a, b) ==
    LET hi == IF b > Len(t) THEN Len(t) ELSE b
    IN IF a >= hi THEN <<>> ELSE SubSeq(t, a + 1, hi)

\* the backtick character, written by name: a string literal of this
\* notation cannot hold it
BT == "BACKTICK"

FenceJson == <<BT, BT, BT, "j", "s", "o", "n">>

Fence == <<BT, BT, BT>>

(***************************************************************************)
(* json.loads, strict mode.  A parse step yields [ok, val, pos]: pos is    *)
(* the position after the value.  ok = FALSE is json.JSONDecodeError.      *)
(***************************************************************************)
None == <<"none", <<>>>>

ParseFail == [ok |-> FALSE, val |-> None, pos |-> 0]

ParseOk(v, p) == [ok |-> TRUE, val |-> v, pos |-> p]

RECURSIVE FirstAt(_, _, _)
\* the first position >= i whose character is in set cs (Len(t)+1 when
\* there is none)
FirstAt(t, cs, i) ==
    IF i > Len(t) THEN Len(t) + 1
    ELSE IF t[i] \in cs THEN i
    ELSE FirstAt(t, cs, i + 1)

RECURSIVE FirstNotAt(_, _, _)
\* the first position >= i whose character is not in set cs
FirstNotAt(t, cs, i) ==
    IF i > Len(t) THEN Len(t) + 1
    ELSE IF t[i] \notin cs THEN i
    ELSE FirstNotAt(t, cs, i + 1)

\* json.decoder.scanstring: t[i] is the opening quote.  Strict mode rejects
\* a control character (here newline or tab) inside the string.
scanstring(t, i) ==
    LET j == FirstAt(t, {Q}, i + 1)
    IN IF j > Len(t) THEN ParseFail
       ELSE LET body == SubSeq(t, i + 1, j - 1)
            IN IF \E k \in 1..Len(body) : body[k] \in {"\n", "\t"}
               THEN ParseFail
               ELSE ParseOk(<<"str", body>>, j + 1)

DigitVal(c) == CHOOSE n \in 0..9 : <<"0", "1", "2", "3", "4", "5", "6", "7", "8", "9">>[n + 1] = c

RECURSIVE IntOf(_)
\* int(digits)
IntOf(ds) ==
    IF ds = <<>> THEN 0
    ELSE 10 * IntOf(SubSeq(ds, 1, Len(ds) - 1)) + DigitVal(ds[Len(ds)])

\* json.scanner NUMBER_RE restricted to integers: -?(0|[1-9]\d*)
scannumber(t, i) ==
    LET neg == At(t, i) = "-"
        d0 == IF neg THEN i + 1 ELSE i
        stop == FirstNotAt(t, Digits, d0)
        dend == IF At(t, d0) = "0" THEN d0 + 1 ELSE stop
        n == IntOf(SubSeq(t, d0, dend - 1))
    IN IF At(t, d0) \notin Digits THEN ParseFail
       ELSE ParseOk(<<"int", IF neg THEN 0 - n ELSE n>>, dend)

RECURSIVE scan_once(_, _), JSONObject(_, _, _), JSONArray(_, _, _)
\* json.scanner.py_make_scanner._scan_once at position i
scan_once(t, i) ==
    LET c == At(t, i)
    IN IF c = Q THEN scanstring(t, i)
       ELSE IF c = "{" THEN
            LET j == SkipWs(t, i + 1)
            IN IF At(t, j) = "}" THEN ParseOk(<<"dict", <<>>>>, j + 1)
               ELSE JSONObject(t, j, <<>>)
       ELSE IF c = "[" THEN
            LET j == SkipWs(t, i + 1)
            IN IF At(t, j) = "]" THEN ParseOk(<<"list", <<>>>>, j + 1)
               ELSE JSONArray(t, j, <<>>)
       ELSE IF MatchesAt(t, <<"n", "u", "l", "l">>, i) THEN ParseOk(None, i + 4)
       ELSE IF MatchesAt(t, <<"t", "r", "u", "e">>, i) THEN ParseOk(<<"bool", TRUE>>, i + 4)
       ELSE IF MatchesAt(t, <<"f", "a", "l", "s", "e">>, i) THEN ParseOk(<<"bool", FALSE>>, i + 5)
       ELSE scannumber(t, i)

\* json.decoder.JSONObject: the members from position i (a key's opening
\* quote is expected there); acc holds the pairs read so far.  A repeated
\* key keeps the last value, as dict assignment does.
JSONObject(t, i, acc) ==
    IF At(t, i) # Q THEN ParseFail
    ELSE LET k == scanstring(t, i)
         IN IF ~k.ok THEN ParseFail
            ELSE LET c == SkipWs(t, k.pos)
                 IN IF At(t, c) # ":" THEN ParseFail
                    ELSE LET v == scan_once(t, SkipWs(t, c + 1))
                         IN IF ~v.ok THEN ParseFail
                            ELSE LET key == k.val[2]
                                     acc2 == [x \in (DOMAIN acc) \cup {key} |->
                                                 IF x = key THEN v.val ELSE acc[x]]
                                     e == SkipWs(t, v.pos)
                                 IN IF At(t, e) = "}" THEN ParseOk(<<"dict", acc2>>, e + 1)
                                    ELSE IF At(t, e) = ","
                                         THEN JSONObject(t, SkipWs(t, e + 1), acc2)
                                         ELSE ParseFail

\* json.decoder.JSONArray: the elements from position i
JSONArray(t, i, acc) ==
    LET v == scan_once(t, i)
    IN IF ~v.ok THEN ParseFail
       ELSE LET e == SkipWs(t, v.pos)
            IN IF At(t, e) = "]" THEN ParseOk(<<"list", Append(acc, v.val)>>, e + 1)
               ELSE IF At(t, e) = ","
                    THEN JSONArray(t, SkipWs(t, e + 1), Append(acc, v.val))
                    ELSE ParseFail

\* json.loads(text): leading and trailing whitespace allowed, anything else
\* after the value is "Extra data"
loads(t) ==
    LET v == scan_once(t, SkipWs(t, 1))
    IN IF v.ok /\ SkipWs(t, v.pos) = Len(t) + 1 THEN v ELSE ParseFail

(***************************************************************************)
(* MonsterGenerator._extract_json                                          *)
(***************************************************************************)
ExcerptLen == 500

RECURSIVE SubTrailingFrom(_, _, _)
\* re.sub(r',\s*<closer>', '<closer>', s) from position i on: a comma,
\* optional whitespace and the closer become the closer alone
SubTrailingFrom(s, closer, i) ==
    LET m == {j \in i..Len(s) : s[j] = "," /\ At(s, SkipWs(s, j + 1)) = closer}
    IN IF m = {} THEN SubSeq(s, i, Len(s))
       ELSE LET j == MinOf(m)
            IN SubSeq(s, i, j - 1) \o <<closer>>
                 \o SubTrailingFrom(s, closer, SkipWs(s, j + 1) + 1)

sub_trailing_comma(s, closer) == SubTrailingFrom(s, closer, 1)

RECURSIVE InsertFrom(_, _)
\* re.sub(r'(?<=")\s*(?=")|\s*(?<=\d)\s*(?=")|\s*(?<=])\s*(?=")', ',', s)
\* from position i on: wherever a quote, a digit or a closing bracket is
\* followed, after optional whitespace, by a quote, that (possibly empty)
\* whitespace becomes a comma
InsertFrom(s, i) ==
    LET m == {p \in i..Len(s) : /\ s[p] \in ({Q, "]"} \cup Digits)
                                /\ At(s, SkipWs(s, p + 1)) = Q}
    IN IF m = {} THEN SubSeq(s, i, Len(s))
       ELSE LET p == MinOf(m)
            IN SubSeq(s, i, p) \o <<",">> \o InsertFrom(s, SkipWs(s, p + 1))

sub_missing_separators(s) == InsertFrom(s, 1)

\* lines 85-86: strip, drop the fence markers, strip again
CleanText(text) == strip(replace_empty(replace_empty(strip(text), FenceJson), Fence))

\* lines 94-98: the candidate payload after the four rewrites
Normalize(json_str) ==
    sub_missing_separators(
        sub_trailing_comma(
            sub_trailing_comma(replace_newlines(json_str), "}"), "]"))

Returned(v) == [kind |-> "return", val |-> v, exc |-> "", excerpt |-> <<>>]

Raised(e, x) == [kind |-> "raise", val |-> None, exc |-> e, excerpt |-> x]

FellThrough == [kind |-> "fallthrough", val |-> None, exc |-> "", excerpt |-> <<>>]

\* lines 91-99: the body of the inner try
InnerTry(text) ==
    LET start == find(text, "{")
        end == rfind(text, "}") + 1
        Parsed(r) == IF r.ok THEN Returned(r.val) ELSE Raised("JSONDecodeError", <<>>)
    IN IF start # -1 /\ end # -1
       THEN Parsed(loads(Normalize(slice(text, start, end))))
       ELSE FellThrough

\* the handler catching nothing: whatever the inner try raised goes on
ExceptException_M(o) == o

\* lines 100-101: except Exception prints and swallows
ExceptException(o) == IF o.kind = "raise" THEN FellThrough ELSE o

\* lines 84-102
extract_json(text0) ==
    LET \* line 102, reached when the inner try returned nothing
        AfterInnerTry(text, o) ==
            IF o.kind = "fallthrough"
            THEN Raised("ValueError", slice(text, 0, ExcerptLen))
            ELSE o
        \* lines 87-101, r is the outcome of json.loads(text) at line 88
        AfterStrictParse(text, r) ==
            IF r.ok THEN Returned(r.val)
            ELSE AfterInnerTry(text, ExceptException(InnerTry(text)))
        \* text is the cleaned text of lines 85-86
        FromCleaned(text) == AfterStrictParse(text, loads(text))
    IN FromCleaned(CleanText(text0))

(***************************************************************************)
(* Inputs of the extraction specification.                                 *)
(***************************************************************************)
MaxTextLen == 3

Alphabet == {"{", "}", "[", "]", Q, ",", ":", "1", "a", " ", "\n", BT}

ShortTexts == UNION {[1..n -> Alphabet] : n \in 0..MaxTextLen}

Str(s) == <<Q>> \o s \o <<Q>>

Pair(k, v) == Str(k) \o <<":">> \o v

Obj(body) == <<"{">> \o body \o <<"}">>

KA == <<"a">>

KB == <<"b">>

One == <<"1">>

WellFormedObjects ==
    { Obj(Pair(KA, One)),
      Obj(Pair(KA, Str(KB))),
      Obj(Pair(KA, Str(<<>>))),
      Obj(Pair(KA, Str(<<"x", "1">>))),
      Obj(Pair(KA, <<"[", "1", ",", "2", "]">>)),
      Obj(Pair(KA, Obj(Pair(KB, One)))),
      Obj(<<>>),
      Obj(Pair(KA, Str(Fence))),
      Obj(<<"\n">> \o Pair(KA, <<" ", "1">>) \o <<",", "\n">> \o Pair(KB, Str(KA)) \o <<"\n">>),
      Obj(Pair(KA, Str(<<"b", ",", "}">>))),
      Obj(Pair(KA, Str(<<"]">>))),
      Obj(Pair(KA, <<"t", "r", "u", "e">>) \o <<",">> \o Pair(KB, <<"n", "u", "l", "l">>)),
      Obj(Pair(KA, Str(KB)) \o <<",">> \o Pair(KB, <<"-", "1", "2">>)) }

TrailingCommaObjects ==
    { Obj(Pair(KA, One) \o <<",">>),
      Obj(Pair(KA, <<"[", "1", ",", "]">>)),
      Obj(Pair(KA, <<"[", "1", ",", " ", "]">>) \o <<",", " ">>),
      Obj(Pair(KA, Str(<<>>)) \o <<",">>),
      Obj(Pair(KA, Str(KB)) \o <<",", " ">>),
      Obj(Pair(KA, Obj(Pair(KB, One) \o <<",">>))) }

MalformedTexts ==
    { Obj(Pair(KA, One) \o <<" ">> \o Pair(KB, One)),
      Obj(Pair(KA, Str(KB)) \o <<" ">> \o Pair(KB, Str(KA))),
      Obj(Pair(KA, <<"[", "1", "]">>) \o Pair(KB, One)),
      Obj(Pair(KA, <<>>)),
      Obj(KA),
      <<"{">> \o Pair(KA, One),
      Obj(Pair(KA, Str(<<"b", "\n", "a">>))),
      Pair(KA, One) \o <<"}", " ", "{">>,
      <<"4", "2">>,
      <<"[", "1", "]">>,
      Str(KA),
      <<"n", "u", "l", "l">>,
      <<"a", "b", "a">>,
      [i \in 1..(ExcerptLen + 1) |-> "a"] }

Bodies == WellFormedObjects \cup TrailingCommaObjects \cup MalformedTexts

FenceWraps == {"fence", "fence_json"}

ProseWraps == {"prose_before", "prose_after", "prose_both"}

Wraps == {"bare", "padded"} \cup FenceWraps \cup ProseWraps

ProseBefore == <<"H", "i", ":", " ">>

ProseAfter == <<" ", "o", "k", ".">>

WrapText(w, b) ==
    CASE w = "bare" -> b
      [] w = "padded" -> <<" ", "\n">> \o b \o <<"\n", " ">>
      [] w = "fence" -> Fence \o <<"\n">> \o b \o <<"\n">> \o Fence
      [] w = "fence_json" -> FenceJson \o <<"\n">> \o b \o <<"\n">> \o Fence
      [] w = "prose_before" -> ProseBefore \o b
      [] w = "prose_after" -> b \o ProseAfter
      [] w = "prose_both" -> ProseBefore \o b \o ProseAfter

\* the text handed to _extract_json
x_text == WrapText(x_wrap, x_body)

NoOutcome == [kind |-> "none", val |-> None, exc |-> "", excerpt |-> <<>>]

(***************************************************************************)
(* Python values and the operations the stages apply to them.              *)
(***************************************************************************)
StrV(t) == <<"str", t>>

IntV(n) == <<"int", n>>

ListV(s) == <<"list", s>>

DictV(f) == <<"dict", f>>

IsDict(v) == v[1] = "dict"

IsStr(v) == v[1] = "str"

\* bool(v)
Truthy(v) ==
    CASE v[1] = "str" -> Len(v[2]) # 0
      [] v[1] = "int" -> v[2] # 0
      [] v[1] = "bool" -> v[2]
      [] v[1] = "list" -> Len(v[2]) # 0
      [] v[1] = "dict" -> DOMAIN v[2] # {}
      [] OTHER -> FALSE

\* d.get(k) on a dict value
Get(d, k) == IF k \in DOMAIN d[2] THEN d[2][k] ELSE None

\* d[k] = v on a dict value
Put(d, k, v) == DictV([x \in (DOMAIN d[2]) \cup {k} |-> IF x = k THEN v ELSE d[2][x]])

LowerLetters == <<"a", "b", "c", "d", "e", "f", "g", "h", "i", "j", "k", "l", "m", "n",
      "o", "p", "q", "r", "s", "t", "u", "v", "w", "x", "y", "z">>

UpperLetters == <<"A", "B", "C", "D", "E", "F", "G", "H", "I", "J", "K", "L", "M", "N",
      "O", "P", "Q", "R", "S", "T", "U", "V", "W", "X", "Y", "Z">>

LowerChar(c) ==
    IF \E i \in 1..26 : UpperLetters[i] = c
    THEN LowerLetters[CHOOSE i \in 1..26 : UpperLetters[i] = c] ELSE c

UpperChar(c) ==
    IF \E i \in 1..26 : LowerLetters[i] = c
    THEN UpperLetters[CHOOSE i \in 1..26 : LowerLetters[i] = c] ELSE c

\* str.lower()
lower(t) == [i \in 1..Len(t) |-> LowerChar(t[i])]

\* str.capitalize(): first character upper case, the rest lower case
capitalize(t) == [i \in 1..Len(t) |-> IF i = 1 THEN UpperChar(t[i]) ELSE LowerChar(t[i])]

\* str.startswith(p)
startswith(t, p) == MatchesAt(t, p, 1)

RECURSIVE join(_, _)
\* sep.join(parts)
join(parts, sep) ==
    IF Len(parts) = 0 THEN <<>>
    ELSE IF Len(parts) = 1 THEN parts[1]
    ELSE parts[1] \o sep \o join(Tail(parts), sep)

K_name == <<"n", "a", "m", "e">>

K_size == <<"s", "i", "z", "e">>

K_type == <<"t", "y", "p", "e">>

K_alignment == <<"a", "l", "i", "g", "n", "m", "e", "n", "t">>

K_armor_class == <<"a", "r", "m", "o", "r", "_", "c", "l", "a", "s", "s">>

K_hit_points == <<"h", "i", "t", "_", "p", "o", "i", "n", "t", "s">>

K_speed == <<"s", "p", "e", "e", "d">>

K_abilities == <<"a", "b", "i", "l", "i", "t", "i", "e", "s">>

K_special_abilities == <<"s", "p", "e", "c", "i", "a", "l", "_", "a", "b", "i", "l", "i", "t",
      "i", "e", "s">>

K_actions == <<"a", "c", "t", "i", "o", "n", "s">>

K_lore == <<"l", "o", "r", "e">>

K_description == <<"d", "e", "s", "c", "r", "i", "p", "t", "i", "o", "n">>

\* the fields of class Monster, all declared without a default
MonsterFields ==
    {K_name, K_size, K_type, K_alignment, K_armor_class, K_hit_points,
     K_speed, K_abilities, K_special_abilities, K_actions, K_lore}

critical_fields ==
    <<K_size, K_type, K_alignment, K_armor_class, K_hit_points,
      K_speed, K_abilities, K_special_abilities, K_actions, K_lore>>

default_values ==
    (K_size :> StrV(<<"M", "e", "d", "i", "u", "m">>))
    @@ (K_type :> StrV(<<"M", "o", "n", "s", "t", "r", "o", "s", "i", "t", "y">>))
    @@ (K_alignment :> StrV(<<"U", "n", "a", "l", "i", "g", "n", "e", "d">>))
    @@ (K_armor_class :> IntV(12))
    @@ (K_hit_points :> IntV(45))
    @@ (K_speed :> DictV(<<"w", "a", "l", "k">> :> IntV(30)))
    @@ (K_abilities :> DictV((<<"s", "t", "r">> :> IntV(10)) @@ (<<"d", "e", "x">> :> IntV(10))
                             @@ (<<"c", "o", "n">> :> IntV(10)) @@ (<<"i", "n", "t">> :> IntV(10))
                             @@ (<<"w", "i", "s">> :> IntV(10)) @@ (<<"c", "h", "a">> :> IntV(10))))
    @@ (K_special_abilities :> ListV(<<DictV(
          (K_name :> StrV(<<"A", "d", "a", "p", "t", "i", "v", "e", " ", "N", "a", "t", "u", "r",
      "e">>))
          @@ (K_description :> StrV(
    <<"T", "h", "e", " ", "c", "r", "e", "a", "t", "u", "r", "e", " ", "c",
      "a", "n", " ", "a", "d", "a", "p", "t", " ", "t", "o", " ", "i", "t",
      "s", " ", "e", "n", "v", "i", "r", "o", "n", "m", "e", "n", "t", ",",
      " ", "g", "a", "i", "n", "i", "n", "g", " ", "s", "l", "i", "g", "h",
      "t", " ", "a", "d", "v", "a", "n", "t", "a", "g", "e", "s", ".">>)))>>))
    @@ (K_actions :> ListV(<<DictV(
          (K_name :> StrV(<<"B", "a", "s", "i", "c", " ", "A", "t", "t", "a", "c", "k">>))
          @@ (K_description :> StrV(
    <<"M", "e", "l", "e", "e", " ", "o", "r", " ", "r", "a", "n", "g", "e",
      "d", " ", "a", "t", "t", "a", "c", "k", " ", "w", "i", "t", "h", " ",
      "s", "t", "a", "n", "d", "a", "r", "d", " ", "d", "a", "m", "a", "g",
      "e", ".">>)))>>))
    @@ (K_lore :> StrV(
    <<"A", " ", "m", "y", "s", "t", "e", "r", "i", "o", "u", "s", " ", "c",
      "r", "e", "a", "t", "u", "r", "e", " ", "w", "i", "t", "h", " ", "a",
      "n", " ", "i", "n", "t", "r", "i", "g", "u", "i", "n", "g", " ", "b",
      "a", "c", "k", "s", "t", "o", "r", "y", " ", "w", "a", "i", "t", "i",
      "n", "g", " ", "t", "o", " ", "b", "e", " ", "d", "i", "s", "c", "o",
      "v", "e", "r", "e", "d", ".">>))

SuffixLen == 3

Ok(v) == [kind |-> "return", val |-> v, exc |-> ""]

Err(e) == [kind |-> "raise", val |-> None, exc |-> e]

\* lines 195-201: the synthesized name; a truthy type that is no string
\* fails in .capitalize(), a truthy size that is no string fails in join
SynthesizeName(d, unique_suffix) ==
    LET type == Get(d, K_type)
        size == Get(d, K_size)
    IN IF Truthy(type) /\ ~IsStr(type) THEN Err("AttributeError")
       ELSE IF Truthy(size) /\ ~IsStr(size) THEN Err("TypeError")
       ELSE LET name_parts == (IF Truthy(type) THEN <<capitalize(type[2])>> ELSE <<>>)
                                \o (IF Truthy(size) THEN <<size[2]>> ELSE <<>>)
            IN Ok(Put(d, K_name, StrV(<<"T", "h", "e", " ">> \o join(name_parts, <<" ">>)
                                        \o <<" ", "o", "f", " ">> \o unique_suffix)))

\* the placeholder test without .lower(): 'Unnamed ...' is kept
NameRepair_M(d, unique_suffix) ==
    LET name == Get(d, K_name)
    IN IF ~Truthy(name) THEN SynthesizeName(d, unique_suffix)
       ELSE IF ~IsStr(name) THEN Err("AttributeError")
       ELSE IF startswith(name[2], <<"u", "n", "n", "a", "m", "e", "d">>)
            THEN SynthesizeName(d, unique_suffix)
            ELSE Ok(d)

\* line 194: the name is missing, empty or starts with 'unnamed'; a truthy
\* name that is no string fails in .lower()
NameRepair(d, unique_suffix) ==
    LET name == Get(d, K_name)
    IN IF ~Truthy(name) THEN SynthesizeName(d, unique_suffix)
       ELSE IF ~IsStr(name) THEN Err("AttributeError")
       ELSE IF startswith(lower(name[2]), <<"u", "n", "n", "a", "m", "e", "d">>)
            THEN SynthesizeName(d, unique_suffix)
            ELSE Ok(d)

\* a default only for a field that is absent, not for an empty one
NeedsDefault_M(d, field) == field \notin DOMAIN d[2]

\* line 208: not monster_draft_dict.get(field)
NeedsDefault(d, field) == ~Truthy(Get(d, field))

RECURSIVE Backfill_M(_, _)
\* the loop ending one field early: lore is never backfilled
Backfill_M(d, i) ==
    IF i >= Len(critical_fields) THEN d
    ELSE LET field == critical_fields[i]
         IN Backfill_M(IF NeedsDefault(d, field)
                       THEN Put(d, field, default_values[field]) ELSE d, i + 1)

RECURSIVE Backfill(_, _)
\* lines 207-230: the loop over critical_fields from index i on
Backfill(d, i) ==
    IF i > Len(critical_fields) THEN d
    ELSE LET field == critical_fields[i]
         IN Backfill(IF NeedsDefault(d, field)
                     THEN Put(d, field, default_values[field]) ELSE d, i + 1)

(***************************************************************************)
(* MonsterGenerationState, the stage functions and the graph.              *)
(***************************************************************************)
Placeholder == <<"y", "o", "u", "r", "-", "a", "p", "i", "-", "k", "e", "y", "-", "h",
      "e", "r", "e">>

\* the state built at lines 352-357
initial_state ==
    [initial_concept |-> StrV(<<"C", "r", "e", "a", "t", "e", " ", "a", " ", "u", "n", "i", "q", "u",
      "e", " ", "a", "n", "d", " ", "u", "n", "e", "x", "p", "e", "c", "t",
      "e", "d", " ", "D", "&", "D", " ", "m", "o", "n", "s", "t", "e", "r">>),
     monster_draft |-> None,
     refined_monster |-> None,
     user_narrative_inputs |-> None]

\* len(self.narrative_questions)
NumQuestions == 5

\* f"question_{i}"
QuestionKey(i) == <<"q", "u", "e", "s", "t", "i", "o", "n", "_">> \o <<<<"0", "1", "2", "3", "4", "5", "6", "7", "8", "9">>[i + 1]>>

\* a stage called with the snapshot s returns the new snapshot new; input
\* is what s holds when the stage is left: no stage assigns to a field of
\* s or changes a dictionary s holds
StageReturn(s, new) == [kind |-> "return", state |-> new, exc |-> "", input |-> s]

\* a stage called with the snapshot s raises e
StageRaise(s, e) == [kind |-> "raise", state |-> s, exc |-> e, input |-> s]

RECURSIVE AskFrom_M(_, _, _, _)
\* a loop that stores each answer under the key of the question before
AskFrom_M(i, lines, user_inputs, log) ==
    IF i > NumQuestions
    THEN [kind |-> "return", user_inputs |-> user_inputs, read |-> i - 1, log |-> log]
    ELSE IF Len(lines) < i
    THEN [kind |-> "raise", user_inputs |-> user_inputs, read |-> i - 1,
          log |-> Append(log, <<"ask", i>>)]
    ELSE AskFrom_M(i + 1, lines,
                   [k \in (DOMAIN user_inputs) \cup {QuestionKey(IF i = 1 THEN NumQuestions ELSE i - 1)} |->
                       IF k = QuestionKey(IF i = 1 THEN NumQuestions ELSE i - 1)
                       THEN StrV(strip(lines[i])) ELSE user_inputs[k]],
                   log \o <<<<"ask", i>>, <<"read", i>>>>)

RECURSIVE AskFrom(_, _, _, _)
\* lines 110-112: the loop from question i on.  input() prints question i
\* and reads the next line; at the end of the input it raises EOFError.
\* lines holds what standard input still has when the stage is entered.
AskFrom(i, lines, user_inputs, log) ==
    IF i > NumQuestions
    THEN [kind |-> "return", user_inputs |-> user_inputs, read |-> i - 1, log |-> log]
    ELSE IF Len(lines) < i
    THEN [kind |-> "raise", user_inputs |-> user_inputs, read |-> i - 1,
          log |-> Append(log, <<"ask", i>>)]
    ELSE AskFrom(i + 1, lines,
                 [k \in (DOMAIN user_inputs) \cup {QuestionKey(i)} |->
                     IF k = QuestionKey(i) THEN StrV(strip(lines[i])) ELSE user_inputs[k]],
                 log \o <<<<"ask", i>>, <<"read", i>>>>)

\* lines 104-119; lines holds what standard input still has
get_user_narrative_inputs(s, lines) ==
    LET AfterLoop(r) ==
            IF r.kind = "raise" THEN StageRaise(s, "EOFError")
            ELSE StageReturn(s, [initial_concept |-> s.initial_concept,
                                 monster_draft |-> s.monster_draft,
                                 refined_monster |-> s.refined_monster,
                                 user_narrative_inputs |-> DictV(r.user_inputs)])
    IN AfterLoop(AskFrom(1, lines, <<>>, <<>>))

\* lines 126-141: the answers are pasted into the text handed to
\* ChatPromptTemplate.from_template, where a brace opens or closes a
\* template variable; chain.invoke({}) supplies no variable, so the prompt
\* cannot be built when an answer holds a brace
TemplateBreaks(s) ==
    /\ IsDict(s.user_narrative_inputs)
    /\ \E k \in DOMAIN s.user_narrative_inputs[2] :
          \E i \in 1..Len(s.user_narrative_inputs[2][k][2]) :
              s.user_narrative_inputs[2][k][2][i] \in {"{", "}"}

\* a concept stage that builds its result from the concept alone
generate_concept_M(s, reply) ==
    IF TemplateBreaks(s) THEN StageRaise(s, "KeyError")
    ELSE IF ~reply.ok THEN StageRaise(s, "APIError")
    ELSE StageReturn(s, [initial_concept |-> StrV(reply.content),
                         monster_draft |-> None,
                         refined_monster |-> None,
                         user_narrative_inputs |-> None])

\* lines 121-153; reply is what chain.invoke produced
generate_concept(s, reply) ==
    IF TemplateBreaks(s) THEN StageRaise(s, "KeyError")
    ELSE IF ~reply.ok THEN StageRaise(s, "APIError")
    ELSE StageReturn(s, [initial_concept |-> StrV(reply.content),
                         monster_draft |-> s.monster_draft,
                         refined_monster |-> s.refined_monster,
                         user_narrative_inputs |-> s.user_narrative_inputs])

ConceptTexts == {<<"A", " ", "f", "o", "g", " ", "w", "r", "a", "i", "t", "h", ".">>, <<"O", "o", "z", "e">>}

GrueText ==
    <<"{", Q, "n", "a", "m", "e", Q, ":", Q, "G", "r", "u", "e", Q,
      ",", Q, "s", "i", "z", "e", Q, ":", Q, "L", "a", "r", "g", "e",
      Q, ",", Q, "t", "y", "p", "e", Q, ":", Q, "A", "b", "e", "r",
      "r", "a", "t", "i", "o", "n", Q, ",", Q, "a", "l", "i", "g", "n",
      "m", "e", "n", "t", Q, ":", Q, "C", "h", "a", "o", "t", "i", "c",
      " ", "E", "v", "i", "l", Q, ",">>
    \o <<Q, "a", "r", "m", "o", "r", "_", "c", "l", "a", "s", "s", Q, ":",
      "1", "5", ",", Q, "h", "i", "t", "_", "p", "o", "i", "n", "t", "s",
      Q, ":", "8", "0", ",", Q, "s", "p", "e", "e", "d", Q, ":", "{",
      Q, "w", "a", "l", "k", Q, ":", "3", "0", "}", ",">>
    \o <<Q, "a", "b", "i", "l", "i", "t", "i", "e", "s", Q, ":", "{", Q,
      "s", "t", "r", Q, ":", "1", "8", ",", Q, "d", "e", "x", Q, ":",
      "1", "0", ",", Q, "c", "o", "n", Q, ":", "1", "6", ",", Q, "i",
      "n", "t", Q, ":", "6", ",", Q, "w", "i", "s", Q, ":", "8", ",",
      Q, "c", "h", "a", Q, ":", "4", "}", ",">>
    \o <<Q, "s", "p", "e", "c", "i", "a", "l", "_", "a", "b", "i", "l", "i",
      "t", "i", "e", "s", Q, ":", "[", "{", Q, "n", "a", "m", "e", Q,
      ":", Q, "D", "a", "r", "k", "v", "i", "s", "i", "o", "n", Q, ",",
      Q, "d", "e", "s", "c", "r", "i", "p", "t", "i", "o", "n", Q, ":",
      Q, "S", "e", "e", "s", " ", "i", "n", " ", "t", "o", "t", "a", "l",
      " ", "d", "a", "r", "k", "n", "e", "s", "s", ".", Q, "}", "]", ",">>
    \o <<Q, "a", "c", "t", "i", "o", "n", "s", Q, ":", "[", "{", Q, "n",
      "a", "m", "e", Q, ":", Q, "C", "l", "a", "w", Q, ",", Q, "d",
      "e", "s", "c", "r", "i", "p", "t", "i", "o", "n", Q, ":", Q, "M",
      "e", "l", "e", "e", " ", "a", "t", "t", "a", "c", "k", ".", Q, "}",
      "]", ",">>
    \o <<Q, "l", "o", "r", "e", Q, ":", Q, "L", "u", "r", "k", "s", " ",
      "i", "n", " ", "a", "b", "a", "n", "d", "o", "n", "e", "d", " ", "m",
      "i", "n", "e", "s", ".", Q, "}">>

OozeText == <<"{", Q, "t", "y", "p", "e", Q, ":", Q, "O", "o", "z", "e", Q,
      ",", Q, "s", "i", "z", "e", Q, ":", Q, "S", "m", "a", "l", "l",
      Q, "}">>

EmptyObjectText == <<"{", "}">>

SparseMoxText == <<"{", Q, "n", "a", "m", "e", Q, ":", Q, "M", "o", "x", Q, ",",
      Q, "l", "o", "r", "e", Q, ":", Q, Q, ",", Q, "a", "r", "m",
      "o", "r", "_", "c", "l", "a", "s", "s", Q, ":", "0", ",", Q, "a",
      "c", "t", "i", "o", "n", "s", Q, ":", "[", "]", "}">>

ProseRefusalText == <<"S", "o", "r", "r", "y", ",", " ", "I", " ", "c", "a", "n", "n", "o",
      "t", " ", "h", "e", "l", "p", ".">>

NameOnlyText == <<"{", Q, "n", "a", "m", "e", Q, ":", Q, "M", "o", "x", Q, "}">>

ProseRefineText == <<"I", " ", "h", "a", "v", "e", " ", "b", "a", "l", "a", "n", "c", "e",
      "d", " ", "t", "h", "e", " ", "m", "o", "n", "s", "t", "e", "r", ".">>

\* a complete record whose lore is three backticks
FencedLoreText ==
    <<"{", Q, "n", "a", "m", "e", Q, ":", Q, "V", "e", "x", Q, ",",
      Q, "s", "i", "z", "e", Q, ":", Q, "T", "i", "n", "y", Q, ",",
      Q, "t", "y", "p", "e", Q, ":", Q, "F", "e", "y", Q, ",", Q,
      "a", "l", "i", "g", "n", "m", "e", "n", "t", Q, ":", Q, "N", "e",
      "u", "t", "r", "a", "l", Q, ",", Q, "a", "r", "m", "o", "r", "_",
      "c", "l", "a", "s", "s", Q, ":", "1", "1", ",", Q, "h", "i", "t",
      "_", "p", "o", "i", "n", "t", "s", Q, ":", "7", ",", Q, "s", "p",
      "e", "e", "d", Q, ":", "{", Q, "f", "l", "y", Q, ":", "4", "0",
      "}", ",", Q, "a", "b", "i", "l", "i", "t", "i", "e", "s", Q, ":",
      "{", Q, "s", "t", "r", Q, ":", "3", "}", ",", Q, "s", "p", "e",
      "c", "i", "a", "l", "_", "a", "b", "i", "l", "i", "t", "i", "e", "s",
      Q, ":", "[", "{", Q, "n", "a", "m", "e", Q, ":", Q, "G", "l",
      "o", "w", Q, "}", "]", ",", Q, "a", "c", "t", "i", "o", "n", "s",
      Q, ":", "[", "{", Q, "n", "a", "m", "e", Q, ":", Q, "B", "i",
      "t", "e", Q, "}", "]", ",", Q, "l", "o", "r", "e", Q, ":", Q,
      BT, BT, BT, Q, "}">>

DraftTexts ==
    { GrueText,
      FencedLoreText,
      <<"{", Q, "n", "a", "m", "e", Q, ":", Q, Q, ",", Q, "t", "y",
      "p", "e", Q, ":", Q, "i", "m", "p", Q, ",", Q, "s", "i", "z",
      "e", Q, ":", Q, "T", "i", "n", "y", Q, "}">>,
      OozeText,
      EmptyObjectText,
      <<"{", Q, "n", "a", "m", "e", Q, ":", Q, "U", "n", "n", "a", "m",
      "e", "d", " ", "H", "o", "r", "r", "o", "r", Q, ",", Q, "t", "y",
      "p", "e", Q, ":", Q, "o", "O", "Z", "E", Q, "}">>,
      SparseMoxText,
      ProseRefusalText,
      <<"[", "1", "]">>,
      <<"{", Q, "n", "a", "m", "e", Q, ":", "5", "}">>,
      <<"{", Q, "s", "i", "z", "e", Q, ":", "5", "}">>,
      <<BT, BT, BT, "j", "s", "o", "n", NL, "{", Q, "n", "a", "m", "e",
      Q, ":", Q, "G", "r", "u", "e", Q, ",", Q, "s", "i", "z", "e",
      Q, ":", Q, "L", "a", "r", "g", "e", Q, "}", NL, BT, BT, BT>>,
      <<"H", "e", "r", "e", " ", "y", "o", "u", " ", "g", "o", ":", " ", "{",
      Q, "n", "a", "m", "e", Q, ":", Q, "M", "o", "x", Q, ",", Q,
      "l", "o", "r", "e", Q, ":", Q, Q, "}">> }

RefineTexts ==
    { GrueText,
      FencedLoreText,
      NameOnlyText,
      EmptyObjectText,
      ProseRefineText,
      <<"n", "u", "l", "l">>,
      <<"[", "1", "]">>,
      <<"{", Q, "n", "a", "m", "e", Q, ":", Q, "M", "o", "x", Q, ",",
      Q, "h", "i", "t", "_", "p", "o", "i", "n", "t", "s", Q, ":", "5",
      "0", ",", "}">>,
      <<"{", Q, "n", "a", "m", "e", Q, ":", "7", ",", Q, "s", "i", "z",
      "e", Q, ":", Q, "T", "i", "n", "y", Q, "}">> }

\* _extract_json on each text the collaborator may answer a draft or a
\* refine call with, computed once: the stages look their reply up here
ExtractOutcome == [t \in DraftTexts \cup RefineTexts |-> extract_json(t)]

\* a repair that fills in the defaults first and names the record after
DraftRepair_M(monster_draft_text, unique_suffix) ==
    LET AfterExtract(x) ==
            IF x.kind = "raise" THEN Err(x.exc)
            ELSE IF ~IsDict(x.val) THEN Err("AttributeError")
            ELSE NameRepair(Backfill(x.val, 1), unique_suffix)
    IN AfterExtract(ExtractOutcome[monster_draft_text])

\* lines 191-234: extraction, name repair and default backfill inside the
\* try; whatever is raised there is printed and raised again
DraftRepair(monster_draft_text, unique_suffix) ==
    LET \* lines 203-230 after the name repair ended as named
        AfterNameRepair(named) ==
            IF named.kind = "raise" THEN named
            ELSE Ok(Backfill(named.val, 1))
        \* lines 194-230 after _extract_json ended as x
        AfterExtract(x) ==
            IF x.kind = "raise" THEN Err(x.exc)
            ELSE IF ~IsDict(x.val) THEN Err("AttributeError")
            ELSE AfterNameRepair(NameRepair(x.val, unique_suffix))
    IN AfterExtract(ExtractOutcome[monster_draft_text])

\* a draft stage that stores the repaired record in the snapshot it was
\* given before building its result
draft_monster_M(s, reply, unique_suffix) ==
    IF ~reply.ok THEN StageRaise(s, "APIError")
    ELSE LET AfterTry(r) ==
                 IF r.kind = "raise" THEN StageRaise(s, r.exc)
                 ELSE StageReturn([s EXCEPT !.monster_draft = r.val],
                                  [s EXCEPT !.monster_draft = r.val])
         IN AfterTry(DraftRepair(reply.content, unique_suffix))

\* lines 155-242
draft_monster(s, reply, unique_suffix) ==
    IF ~reply.ok THEN StageRaise(s, "APIError")
    ELSE LET AfterTry(r) ==
                 IF r.kind = "raise" THEN StageRaise(s, r.exc)
                 ELSE StageReturn(s, [initial_concept |-> s.initial_concept,
                                      monster_draft |-> r.val,
                                      refined_monster |-> s.refined_monster,
                                      user_narrative_inputs |-> s.user_narrative_inputs])
         IN AfterTry(DraftRepair(reply.content, unique_suffix))

\* the extractor error swallowed, an empty record in its place
RefineExtract_M(refined_response) ==
    LET AfterExtract(x) == IF x.kind = "raise" THEN Ok(DictV(<<>>)) ELSE Ok(x.val)
    IN AfterExtract(ExtractOutcome[refined_response])

\* lines 263-268: the extractor's error is printed and raised again
RefineExtract(refined_response) ==
    LET AfterExtract(x) == IF x.kind = "raise" THEN Err(x.exc) ELSE Ok(x.val)
    IN AfterExtract(ExtractOutcome[refined_response])

\* the field type Optional[Dict[str, Any]] of MonsterGenerationState:
\* the constructor accepts a dict or None and rejects anything else
ValidOptionalDict(v) == IsDict(v) \/ v = None

\* refinement that repairs its record as the draft stage does
refine_monster_M(s, reply) ==
    IF ~reply.ok THEN StageRaise(s, "APIError")
    ELSE LET AfterTry(r) ==
                 IF r.kind = "raise" THEN StageRaise(s, r.exc)
                 ELSE IF ~ValidOptionalDict(r.val) THEN StageRaise(s, "ValidationError")
                 ELSE StageReturn(s, [initial_concept |-> s.initial_concept,
                                      monster_draft |-> s.monster_draft,
                                      refined_monster |->
                                          IF IsDict(r.val) THEN Backfill(r.val, 1) ELSE r.val,
                                      user_narrative_inputs |-> s.user_narrative_inputs])
         IN AfterTry(RefineExtract(reply.content))

\* lines 244-276
refine_monster(s, reply) ==
    IF ~reply.ok THEN StageRaise(s, "APIError")
    ELSE LET AfterTry(r) ==
                 IF r.kind = "raise" THEN StageRaise(s, r.exc)
                 ELSE IF ~ValidOptionalDict(r.val) THEN StageRaise(s, "ValidationError")
                 ELSE StageReturn(s, [initial_concept |-> s.initial_concept,
                                      monster_draft |-> s.monster_draft,
                                      refined_monster |-> r.val,
                                      user_narrative_inputs |-> s.user_narrative_inputs])
         IN AfterTry(RefineExtract(reply.content))

\* the nodes added at lines 318-321
Stages == {"get_user_inputs", "generate_concept", "draft_monster", "refine_monster"}

\* a graph entered at the concept stage, the input collection skipped
EntryPoint_M == "generate_concept"

\* set_entry_point, line 324
EntryPoint == "get_user_inputs"

\* the edges with draft_monster left out of the chain
Edge_M ==
    ("get_user_inputs" :> "generate_concept")
    @@ ("generate_concept" :> "refine_monster")
    @@ ("draft_monster" :> "refine_monster")
    @@ ("refine_monster" :> "END")

\* add_edge, lines 325-328
Edge ==
    ("get_user_inputs" :> "generate_concept")
    @@ ("generate_concept" :> "draft_monster")
    @@ ("draft_monster" :> "refine_monster")
    @@ ("refine_monster" :> "END")

(***************************************************************************)
(* The environment: the API key, the lines on standard input, the replies  *)
(* of the generation collaborator and the random name suffix.              *)
(***************************************************************************)
MaxStdin == 6

MaxSuffixLetters == 2

Script1 == <<<<"g", "s", "k", "_", "k">>, <<" ", "a">>, <<"b", " ">>, <<>>, <<"c">>, <<"d">>, <<"e">>, <<"f">>>>

Script2 == <<<<" ">>, <<"x">>, <<"{", "y", "}">>, <<"z">>, <<"u">>, <<"v">>, <<"w">>, <<"t">>>>

StdinScripts ==
    {SubSeq(sc, 1, n) : sc \in {Script1, Script2},
                        n \in 0..(IF MaxStdin < 8 THEN MaxStdin ELSE 8)}

EnvKeys == {<<>>, Placeholder, <<"g", "s", "k", "_", "e">>}

\* the suffixes random.choices can draw, over the first letters of A..Z
Suffixes == [1..SuffixLen -> {UpperLetters[i] : i \in 1..MaxSuffixLetters}]

Reply(t) == [ok |-> TRUE, content |-> t]

\* the collaborator call raising instead of answering
NoReply == [ok |-> FALSE, content |-> <<>>]

Replies(texts) == {Reply(t) : t \in texts} \cup {NoReply}

NoResult == <<"unset", <<>>>>

NoError == [exc |-> "", stage |-> ""]

\* state.user_narrative_inputs.get('question_i', default), pasted into a text
AnswerText(s, i, default) ==
    IF QuestionKey(i) \in DOMAIN s.user_narrative_inputs[2]
    THEN s.user_narrative_inputs[2][QuestionKey(i)][2]
    ELSE default

ConceptLabels ==
    <<<<"D", "a", "r", "k", " ", "S", "e", "c", "r", "e", "t", ":", " ">>, <<"U", "n", "i", "q", "u", "e", " ", "E", "n", "v", "i", "r", "o", "n",
      "m", "e", "n", "t", ":", " ">>, <<"U", "n", "e", "x", "p", "e", "c", "t", "e", "d", " ", "M", "o", "t",
      "i", "v", "a", "t", "i", "o", "n", ":", " ">>,
      <<"C", "r", "e", "a", "t", "u", "r", "e", " ", "I", "n", "t", "e", "r",
      "a", "c", "t", "i", "o", "n", ":", " ">>, <<"T", "e", "r", "r", "i", "f", "y", "i", "n", "g", " ", "A", "s", "p",
      "e", "c", "t", ":", " ">>>>

DraftDefaults ==
    <<<<"N", "o", " ", "d", "a", "r", "k", " ", "s", "e", "c", "r", "e", "t",
      " ", "p", "r", "o", "v", "i", "d", "e", "d">>, <<"N", "o", " ", "u", "n", "i", "q", "u", "e", " ", "e", "n", "v", "i",
      "r", "o", "n", "m", "e", "n", "t", " ", "s", "p", "e", "c", "i", "f",
      "i", "e", "d">>,
      <<"N", "o", " ", "u", "n", "e", "x", "p", "e", "c", "t", "e", "d", " ",
      "m", "o", "t", "i", "v", "a", "t", "i", "o", "n", " ", "g", "i", "v",
      "e", "n">>, <<"N", "o", " ", "i", "n", "t", "e", "r", "a", "c", "t", "i", "o", "n",
      " ", "d", "e", "t", "a", "i", "l", "s", " ", "p", "r", "o", "v", "i",
      "d", "e", "d">>,
      <<"N", "o", " ", "t", "e", "r", "r", "i", "f", "y", "i", "n", "g", " ",
      "a", "s", "p", "e", "c", "t", " ", "d", "e", "s", "c", "r", "i", "b",
      "e", "d">>>>

\* a concept prompt that opens with the concept of the state it is given
ConceptPrompt_M(s) ==
    [template |-> "concept_prompt",
     input |-> s.initial_concept[2] \o
               (IF Truthy(s.user_narrative_inputs)
                THEN join([i \in 1..NumQuestions |-> ConceptLabels[i] \o AnswerText(s, i, <<>>)], <<NL>>)
                        \o <<NL, NL>>
                ELSE <<>>)]

\* lines 126-142: the prompt of generate_concept is its fixed instruction
\* text after the narrative context, which is made of the answers alone
ConceptPrompt(s) ==
    [template |-> "concept_prompt",
     input |-> IF Truthy(s.user_narrative_inputs)
               THEN join([i \in 1..NumQuestions |-> ConceptLabels[i] \o AnswerText(s, i, <<>>)], <<NL>>)
                       \o <<NL, NL>>
               ELSE <<>>]

\* lines 159-187: the prompt of draft_monster is its fixed template filled
\* with full_concept, the numbered narrative context and the concept text
DraftPrompt(s) ==
    [template |-> "draft_prompt",
     input |-> (IF Truthy(s.user_narrative_inputs)
                THEN <<"U", "s", "e", "r", " ", "P", "r", "o", "v", "i", "d", "e", "d", " ",
      "N", "a", "r", "r", "a", "t", "i", "v", "e", " ", "C", "o", "n", "t",
      "e", "x", "t", ":">> \o <<NL>>
                        \o join([i \in 1..NumQuestions |->
                                   <<<<"1", "2", "3", "4", "5">>[i]>> \o <<".", " ">> \o ConceptLabels[i]
                                      \o AnswerText(s, i, DraftDefaults[i]) \o <<NL>>], <<>>)
                        \o <<NL>>
                ELSE <<>>)
               \o <<"M", "o", "n", "s", "t", "e", "r", " ", "C", "o", "n", "c", "e", "p",
      "t", ":", " ">> \o s.initial_concept[2]]

\* lines 248-261: the prompt of refine_monster is its fixed template filled
\* with json.dumps of the draft; the prompt is kept as the draft it shows
RefinePrompt(s) == [template |-> "refine_prompt", input |-> s.monster_draft]

\* the initial state of a second run, which differs in the concept only
twin_state ==
    [initial_concept |-> StrV(<<"{", "c", "o", "n", "c", "e", "p", "t", "}">>),
     monster_draft |-> initial_state.monster_draft,
     refined_monster |-> initial_state.refined_monster,
     user_narrative_inputs |-> initial_state.user_narrative_inputs]

\* the second run t takes the step of node n that the first run takes, with
\* outcome o for its own state and the calls sent it makes; a run that
\* raised has left the graph
TwinStep(t, n, o, sent) ==
    IF t.raised # NoError THEN t
    ELSE [state |-> IF o.kind = "return" THEN o.state ELSE t.state,
          calls |-> t.calls \o sent,
          raised |-> IF o.kind = "return" THEN NoError ELSE [exc |-> o.exc, stage |-> n]]

Init ==
    /\ env_key \in EnvKeys
    /\ stdin \in StdinScripts
    /\ pc = "start"
    /\ node = "none"
    /\ state = initial_state
    /\ passed = None
    /\ io = <<>>
    /\ twin = [state |-> twin_state, calls |-> <<>>, raised |-> NoError]
    /\ trace = <<>>
    /\ calls = <<>>
    /\ raised = NoError
    /\ result = NoResult
    /\ files = {}
    /\ x_wrap = "bare"
    /\ x_body = <<>>
    /\ x_pc = "idle"
    /\ x_out = NoOutcome

\* a key check that goes on with whatever was entered, a blank line too
Start_M ==
    /\ pc = "start"
    /\ IF env_key = <<>> \/ env_key = Placeholder
       THEN IF stdin = <<>>
            THEN /\ pc' = "escaped"
                 /\ raised' = [exc |-> "EOFError", stage |-> "api_key"]
                 /\ UNCHANGED <<env_key, stdin, node, result>>
            ELSE /\ stdin' = Tail(stdin)
                 /\ env_key' = strip(Head(stdin))
                 /\ pc' = "invoke"
                 /\ node' = EntryPoint
                 /\ UNCHANGED <<result, raised>>
       ELSE /\ pc' = "invoke"
            /\ node' = EntryPoint
            /\ UNCHANGED <<env_key, stdin, result, raised>>
    /\ UNCHANGED <<io, state, passed, trace, calls, files, twin, xvars>>

\* generate_amazing_monster, lines 343-360: the key check, the initial
\* state and the graph.  input() at line 346 is outside the try block.
Start ==
    /\ pc = "start"
    /\ IF env_key = <<>> \/ env_key = Placeholder
       THEN IF stdin = <<>>
            THEN /\ pc' = "escaped"
                 /\ raised' = [exc |-> "EOFError", stage |-> "api_key"]
                 /\ UNCHANGED <<env_key, stdin, node, result>>
            ELSE LET api_key == strip(Head(stdin))
                 IN /\ stdin' = Tail(stdin)
                    /\ IF api_key = <<>>
                       THEN /\ pc' = "returned"
                            /\ result' = None
                            /\ UNCHANGED <<env_key, node, raised>>
                       ELSE /\ env_key' = api_key
                            /\ pc' = "invoke"
                            /\ node' = EntryPoint
                            /\ UNCHANGED <<result, raised>>
       ELSE /\ pc' = "invoke"
            /\ node' = EntryPoint
            /\ UNCHANGED <<env_key, stdin, result, raised>>
    /\ UNCHANGED <<io, state, passed, trace, calls, files, twin, xvars>>

\* a graph that goes on to the next node after a stage raised
RunStage_M(n, o) ==
    /\ trace' = Append(trace, n)
    /\ passed' = o.input
    /\ node' = Edge[n]
    /\ IF o.kind = "return"
       THEN /\ state' = o.state
            /\ UNCHANGED <<raised, pc>>
       ELSE /\ raised' = [exc |-> o.exc, stage |-> n]
            /\ UNCHANGED <<state, pc>>

\* the graph runs node n with outcome o: a returned state moves along the
\* node's edge, a raised exception leaves monster_graph.invoke (line 363)
RunStage(n, o) ==
    /\ trace' = Append(trace, n)
    /\ passed' = o.input
    /\ IF o.kind = "return"
       THEN /\ state' = o.state
            /\ node' = Edge[n]
            /\ UNCHANGED <<raised, pc>>
       ELSE /\ raised' = [exc |-> o.exc, stage |-> n]
            /\ pc' = "except"
            /\ UNCHANGED <<state, node>>

GetUserInputs ==
    /\ pc = "invoke"
    /\ node = "get_user_inputs"
    /\ stdin' = SubSeq(stdin, AskFrom(1, stdin, <<>>, <<>>).read + 1, Len(stdin))
    /\ io' = AskFrom(1, stdin, <<>>, <<>>).log
    /\ RunStage(node, get_user_narrative_inputs(state, stdin))
    /\ twin' = TwinStep(twin, node, get_user_narrative_inputs(twin.state, stdin), <<>>)
    /\ UNCHANGED <<env_key, calls, result, files, xvars>>

\* a concept stage that never gets back from building a prompt it cannot build
GenerateConcept_M ==
    /\ pc = "invoke"
    /\ node = "generate_concept"
    /\ ~TemplateBreaks(state)
    /\ \E reply \in Replies(ConceptTexts) :
          /\ calls' = Append(calls, [stage |-> node, prompt |-> ConceptPrompt(state), reply |-> reply])
          /\ RunStage(node, generate_concept(state, reply))
          /\ twin' = TwinStep(twin, node, generate_concept(twin.state, reply),
                              <<[stage |-> node, prompt |-> ConceptPrompt(twin.state), reply |-> reply]>>)
    /\ UNCHANGED <<env_key, stdin, io, result, files, xvars>>

GenerateConcept ==
    /\ pc = "invoke"
    /\ node = "generate_concept"
    /\ \E reply \in Replies(ConceptTexts) :
          /\ calls' = IF TemplateBreaks(state) THEN calls
                      ELSE Append(calls, [stage |-> node, prompt |-> ConceptPrompt(state), reply |-> reply])
          /\ RunStage(node, generate_concept(state, reply))
          /\ twin' = TwinStep(twin, node, generate_concept(twin.state, reply),
                              IF TemplateBreaks(twin.state) THEN <<>>
                              ELSE <<[stage |-> node, prompt |-> ConceptPrompt(twin.state), reply |-> reply]>>)
    /\ UNCHANGED <<env_key, stdin, io, result, files, xvars>>

\* a draft stage that asks the collaborator a second time when the first
\* reply could not be used
DraftMonster_M ==
    /\ pc = "invoke"
    /\ node = "draft_monster"
    /\ \E first \in Replies(DraftTexts), reply \in Replies(DraftTexts), unique_suffix \in Suffixes :
          IF draft_monster(state, first, unique_suffix).kind = "return"
          THEN /\ calls' = Append(calls, [stage |-> node, prompt |-> DraftPrompt(state), reply |-> first])
               /\ RunStage(node, draft_monster(state, first, unique_suffix))
               /\ twin' = TwinStep(twin, node, draft_monster(twin.state, first, unique_suffix),
                                   <<[stage |-> node, prompt |-> DraftPrompt(twin.state), reply |-> first]>>)
          ELSE /\ calls' = Append(Append(calls, [stage |-> node, prompt |-> DraftPrompt(state), reply |-> first]),
                                  [stage |-> node, prompt |-> DraftPrompt(state), reply |-> reply])
               /\ RunStage(node, draft_monster(state, reply, unique_suffix))
               /\ twin' = TwinStep(twin, node, draft_monster(twin.state, reply, unique_suffix),
                                   <<[stage |-> node, prompt |-> DraftPrompt(twin.state), reply |-> first],
                                     [stage |-> node, prompt |-> DraftPrompt(twin.state), reply |-> reply]>>)
    /\ UNCHANGED <<env_key, stdin, io, result, files, xvars>>

DraftMonster ==
    /\ pc = "invoke"
    /\ node = "draft_monster"
    /\ \E reply \in Replies(DraftTexts), unique_suffix \in Suffixes :
          /\ calls' = Append(calls, [stage |-> node, prompt |-> DraftPrompt(state), reply |-> reply])
          /\ RunStage(node, draft_monster(state, reply, unique_suffix))
          /\ twin' = TwinStep(twin, node, draft_monster(twin.state, reply, unique_suffix),
                              <<[stage |-> node, prompt |-> DraftPrompt(twin.state), reply |-> reply]>>)
    /\ UNCHANGED <<env_key, stdin, io, result, files, xvars>>

RefineMonster ==
    /\ pc = "invoke"
    /\ node = "refine_monster"
    /\ \E reply \in Replies(RefineTexts) :
          /\ calls' = Append(calls, [stage |-> node, prompt |-> RefinePrompt(state), reply |-> reply])
          /\ RunStage(node, refine_monster(state, reply))
          /\ twin' = TwinStep(twin, node, refine_monster(twin.state, reply),
                              <<[stage |-> node, prompt |-> RefinePrompt(twin.state), reply |-> reply]>>)
    /\ UNCHANGED <<env_key, stdin, io, result, files, xvars>>

\* lines 365-477: the graph reached END; the record is checked, named and
\* written to the two files.  A write may fail.
Save ==
    /\ pc = "invoke"
    /\ node = "END"
    /\ LET refined_monster == state.refined_monster
       IN IF ~IsDict(refined_monster)
          THEN /\ pc' = "returned"
               /\ result' = None
               /\ UNCHANGED <<raised, files>>
          ELSE IF K_name \in DOMAIN refined_monster[2] /\ ~IsStr(refined_monster[2][K_name])
          THEN /\ pc' = "except"
               /\ raised' = [exc |-> "AttributeError", stage |-> "save"]
               /\ UNCHANGED <<result, files>>
          ELSE \E json_written, md_written \in BOOLEAN :
                  IF ~json_written
                  THEN /\ pc' = "except"
                       /\ raised' = [exc |-> "OSError", stage |-> "save"]
                       /\ UNCHANGED <<result, files>>
                  ELSE IF ~md_written
                  THEN /\ pc' = "except"
                       /\ raised' = [exc |-> "OSError", stage |-> "save"]
                       /\ files' = files \cup {"json"}
                       /\ UNCHANGED result
                  ELSE /\ pc' = "returned"
                       /\ result' = refined_monster
                       /\ files' = files \cup {"json", "md"}
                       /\ UNCHANGED raised
    /\ UNCHANGED <<env_key, stdin, io, node, state, passed, trace, calls, twin, xvars>>

\* lines 479-483: except Exception prints the error and returns None
Catch ==
    /\ pc = "except"
    /\ pc' = "returned"
    /\ result' = None
    /\ UNCHANGED <<env_key, stdin, io, node, state, passed, trace, calls, raised, files, twin, xvars>>

Next ==
    \/ Start
    \/ GetUserInputs
    \/ GenerateConcept
    \/ DraftMonster
    \/ RefineMonster
    \/ Save
    \/ Catch

Spec == Init /\ [][Next]_vars

\* the run under the proviso that no step blocks for ever: input() gets
\* its line or the end of the input, chain.invoke returns or raises, a file
\* write completes or fails.  Whatever step the run is at is taken.
SpecFair == Spec /\ WF_vars(Next)

(***************************************************************************)
(* The extraction specification: one call of _extract_json on one text.    *)
(***************************************************************************)
InitExtract ==
    /\ x_wrap \in Wraps
    /\ x_body \in Bodies \cup (IF x_wrap = "bare" THEN ShortTexts ELSE {})
    /\ x_pc = "call"
    /\ x_out = NoOutcome
    /\ env_key = <<>>
    /\ stdin = <<>>
    /\ pc = "idle"
    /\ node = "none"
    /\ state = initial_state
    /\ passed = None
    /\ io = <<>>
    /\ twin = [state |-> twin_state, calls |-> <<>>, raised |-> NoError]
    /\ trace = <<>>
    /\ calls = <<>>
    /\ raised = NoError
    /\ result = NoResult
    /\ files = {}

\* one call of _extract_json on the chosen text
ExtractCall ==
    /\ x_pc = "call"
    /\ x_out' = extract_json(x_text)
    /\ x_pc' = "done"
    /\ UNCHANGED <<x_wrap, x_body, pvars>>

NextExtract == ExtractCall

SpecExtract == InitExtract /\ [][NextExtract]_vars

(***************************************************************************)
(* Properties of the pipeline (specification Spec).                        *)
(***************************************************************************)
StageOrder == <<"get_user_inputs", "generate_concept", "draft_monster", "refine_monster">>

\* C1: the stages run in the fixed order get_user_inputs, generate_concept,
\* draft_monster, refine_monster, END: the stages run so far are a prefix
\* of that order (so each ran at most once), the node to run next is the
\* one after the last stage that returned, and END is reached only after
\* all four.
C1_FixedStageOrder ==
    /\ Len(trace) <= Len(StageOrder)
    /\ trace = SubSeq(StageOrder, 1, Len(trace))
    /\ (pc = "invoke" /\ node \in Stages) => node = StageOrder[Len(trace) + 1]
    /\ node = "END" => trace = StageOrder
    /\ node \in Stages \cup {"none", "END"}

C1_Witness == node = "END" /\ trace = StageOrder /\ pc = "invoke"

\* the generation calls made by stage s
CallsOf(s) == {i \in 1..Len(calls) : calls[i].stage = s}

\* the extractor failed on the reply given to stage s
ExtractionFailedAt(s) ==
    \E i \in CallsOf(s) :
        calls[i].reply.ok /\ ExtractOutcome[calls[i].reply.content].kind = "raise"

\* the state field stage s produces
ProducedField(s) ==
    IF s = "draft_monster" THEN state.monster_draft ELSE state.refined_monster

C3_RecordOnlyAfterAllStages ==
    /\ IsDict(result) =>
          /\ trace = StageOrder
          /\ raised = NoError
          /\ result = state.refined_monster
    /\ raised.stage \in Stages =>
          /\ trace[Len(trace)] = raised.stage
          /\ node = raised.stage
          /\ pc \in {"except", "returned"}
          /\ result \in {NoResult, None}
          /\ files = {}

C3_Witness ==
    /\ raised.stage = "draft_monster"
    /\ pc = "returned"
    /\ result = None
    /\ files = {}

\* C4: whenever draft_monster has returned a state, its monster_draft holds
\* all eleven required fields, each with a non-empty (truthy) value.
C4_DraftSchemaComplete ==
    state.monster_draft # None =>
        /\ IsDict(state.monster_draft)
        /\ \A f \in MonsterFields :
              /\ f \in DOMAIN state.monster_draft[2]
              /\ Truthy(state.monster_draft[2][f])

C4_Witness ==
    /\ \E i \in CallsOf("draft_monster") : calls[i].reply.content = SparseMoxText
    /\ state.monster_draft # None
    /\ state.monster_draft[2][K_lore] = default_values[K_lore]
    /\ state.monster_draft[2][K_armor_class] = IntV(12)

\* C5: every record returned as final has every required field present.
C5_FinalRecordComplete ==
    IsDict(result) => \A f \in MonsterFields : f \in DOMAIN result[2]

IsObjectText(t) == loads(t).ok /\ IsDict(loads(t).val)

\* C7: for well-formed JSON object text wrapped in fence markers,
\* _extract_json returns the strict parse of the unwrapped text.
C7_FencedEqualsStrict ==
    (x_pc = "done" /\ x_wrap \in FenceWraps /\ IsObjectText(x_body)) =>
        x_out = Returned(loads(x_body).val)

\* the number of occurrences of character c in t
Count(t, c) == Cardinality({i \in 1..Len(t) : t[i] = c})

\* C8: for text holding exactly one brace-delimited well-formed JSON object
\* with prose before and/or after it, _extract_json returns the strict parse
\* of that object.
C8_SingleObjectRecovered ==
    (/\ x_pc = "done"
     /\ x_wrap \in ProseWraps
     /\ Count(x_body, "{") = 1
     /\ Count(x_body, "}") = 1
     /\ IsObjectText(x_body)) =>
        x_out = Returned(loads(x_body).val)

\* t without the character at position p
DropAt(t, p) == SubSeq(t, 1, p - 1) \o SubSeq(t, p + 1, Len(t))

\* position p of t holds a comma directly before a closing brace or bracket
TrailingCommaAt(t, p) ==
    At(t, p) = "," /\ At(t, SkipWs(t, p + 1)) \in {"}", "]"}

\* C9: for a JSON object made invalid only by one trailing comma,
\* _extract_json returns the object without that comma although the strict
\* parse of the text fails.
C9_TrailingCommaRepaired ==
    (x_pc = "done" /\ x_wrap = "bare" /\ ~loads(x_body).ok) =>
        \A p \in 1..Len(x_body) :
            (TrailingCommaAt(x_body, p) /\ IsObjectText(DropAt(x_body, p))) =>
                x_out = Returned(loads(DropAt(x_body, p)).val)

\* no opening brace, no closing brace, or the last closing brace before the
\* first opening one
NoBraceStructure(t) ==
    \/ find(t, "{") = -1
    \/ rfind(t, "}") = -1
    \/ rfind(t, "}") < find(t, "{")

\* C10: for text with no recoverable brace-delimited structure,
\* _extract_json raises ValueError and the excerpt the error carries is a
\* prefix, at most 500 characters long, of the text (taken here after the
\* whitespace and fence markers around it are stripped).
C10_NoBracesFails ==
    (x_pc = "done" /\ NoBraceStructure(x_text)) =>
        /\ x_out.kind = "raise"
        /\ x_out.exc = "ValueError"
        /\ Len(x_out.excerpt) <= ExcerptLen
        /\ x_out.excerpt = SubSeq(CleanText(x_text), 1, Len(x_out.excerpt))

(***************************************************************************)
(* Properties of the stage functions and of the run (specification Spec).  *)
(***************************************************************************)
\* the text is a well-formed JSON object holding every required field with
\* a non-empty value and a name that is a string not starting with 'unnamed'
CompleteRecordText(t) ==
    /\ IsObjectText(t)
    /\ \A f \in MonsterFields : Truthy(Get(loads(t).val, f))
    /\ IsStr(Get(loads(t).val, K_name))
    /\ ~startswith(lower(Get(loads(t).val, K_name)[2]), <<"u", "n", "n", "a", "m", "e", "d">>)

\* the texts the collaborator answered with at stage s
RepliesAt(s) == {calls[i].reply.content : i \in {j \in CallsOf(s) : calls[j].reply.ok}}

\* C11: when the draft call and the refine call are answered with the same
\* complete, valid record text, neither stage fails and the draft record,
\* the refined record and the record returned all equal the record the
\* text denotes.
C11_SameRecordUnchanged ==
    \A t \in RepliesAt("draft_monster") \cap RepliesAt("refine_monster") :
        CompleteRecordText(t) =>
            /\ raised.stage \notin Stages
            /\ state.monster_draft = loads(t).val
            /\ state.refined_monster = loads(t).val
            /\ IsDict(result) => result = loads(t).val

\* the letters random.choices draws from
UpperSet == {UpperLetters[i] : i \in 1..Len(UpperLetters)}

\* name is prefix followed by exactly SuffixLen uppercase letters
SynthesizedForm(name, prefix) ==
    /\ Len(name) = Len(prefix) + SuffixLen
    /\ SubSeq(name, 1, Len(prefix)) = prefix
    /\ \A k \in (Len(prefix) + 1)..Len(name) : name[k] \in UpperSet

\* the record _extract_json returned for the draft reply
ExtractedDraft == ExtractOutcome[calls[MinOf(CallsOf("draft_monster"))].reply.content].val

\* draft_monster has returned a state
DraftReturned == state.monster_draft # None

\* the name of the extracted record is missing, empty or a string starting,
\* in any case of letters, with 'unnamed'
NamePlaceholder(d) ==
    \/ ~Truthy(Get(d, K_name))
    \/ IsStr(Get(d, K_name)) /\ startswith(lower(Get(d, K_name)[2]), <<"u", "n", "n", "a", "m", "e", "d">>)

\* C12: when draft_monster returns, the draft's name is synthesized exactly
\* when the extracted name is missing, empty or starts with 'unnamed' in any
\* case of letters: it then starts with 'The ', ends with ' of ' and three
\* uppercase letters, and for a record with a type and a size it is
\* 'The <Type> <size> of XXX'; otherwise the extracted name is kept.
C12_NameSynthesized ==
    DraftReturned =>
        IF NamePlaceholder(ExtractedDraft)
        THEN /\ IsStr(Get(state.monster_draft, K_name))
             /\ startswith(Get(state.monster_draft, K_name)[2], <<"T", "h", "e", " ">>)
             /\ \E n \in 0..Len(Get(state.monster_draft, K_name)[2]) :
                   SynthesizedForm(Get(state.monster_draft, K_name)[2],
                       SubSeq(Get(state.monster_draft, K_name)[2], 1, n) \o <<" ", "o", "f", " ">>)
             /\ (Truthy(Get(ExtractedDraft, K_type)) /\ Truthy(Get(ExtractedDraft, K_size))) =>
                   SynthesizedForm(Get(state.monster_draft, K_name)[2],
                       <<"T", "h", "e", " ">> \o capitalize(Get(ExtractedDraft, K_type)[2]) \o <<" ">>
                          \o Get(ExtractedDraft, K_size)[2] \o <<" ", "o", "f", " ">>)
        ELSE Get(state.monster_draft, K_name) = Get(ExtractedDraft, K_name)

C12_Witness ==
    /\ DraftReturned
    /\ calls[MinOf(CallsOf("draft_monster"))].reply.content = OozeText
    /\ Get(state.monster_draft, K_name) = StrV(<<"T", "h", "e", " ", "O", "o", "z", "e", " ", "S", "m", "a", "l", "l",
      " ", "o", "f", " ", "A", "B", "A">>)

\* the outcome of _extract_json on the refine reply
ExtractedRefine == ExtractOutcome[calls[MinOf(CallsOf("refine_monster"))].reply.content]

\* the collaborator answered the refine call
RefineAnswered ==
    CallsOf("refine_monster") # {} /\ calls[MinOf(CallsOf("refine_monster"))].reply.ok

\* refine_monster has run and returned a state
RefineReturned == Len(trace) = Len(StageOrder) /\ raised.stage # "refine_monster"

\* C13: whenever refine_monster returns, refined_monster is exactly the
\* value _extract_json returned for the refine reply, nothing added and
\* nothing changed; whenever _extract_json fails on the refine reply,
\* refine_monster raises.
C13_RefineNoRepair ==
    RefineAnswered =>
        /\ RefineReturned =>
              /\ ExtractedRefine.kind = "return"
              /\ state.refined_monster = ExtractedRefine.val
        /\ ExtractedRefine.kind = "raise" =>
              /\ raised.stage = "refine_monster"
              /\ state.refined_monster = None

C13_Witness ==
    /\ RefineAnswered
    /\ RefineReturned
    /\ calls[MinOf(CallsOf("refine_monster"))].reply.content = NameOnlyText
    /\ DOMAIN state.refined_monster[2] = {K_name}

StateFields == {"initial_concept", "monster_draft", "refined_monster", "user_narrative_inputs"}

\* the state field each stage produces
Produces ==
    [n \in Stages |->
        CASE n = "get_user_inputs" -> "user_narrative_inputs"
          [] n = "generate_concept" -> "initial_concept"
          [] n = "draft_monster" -> "monster_draft"
          [] n = "refine_monster" -> "refined_monster"]

\* in this step the graph ran stage n
StageStep(n) == trace' = Append(trace, n)

\* C14: a step of any stage leaves every state field the stage does not
\* produce at the value it had before the stage, and no step turns a
\* populated field into an empty one.
C14_FieldsCarriedForward ==
    [][ /\ \A n \in Stages : StageStep(n) =>
              \A f \in StateFields \ {Produces[n]} : state'[f] = state[f]
        /\ \A f \in StateFields : state[f] # None => state'[f] # None ]_vars

C14_Witness ==
    /\ trace = StageOrder
    /\ raised = NoError
    /\ IsDict(state.user_narrative_inputs)
    /\ IsStr(state.initial_concept)
    /\ state.initial_concept # initial_state.initial_concept
    /\ IsDict(state.monster_draft)
    /\ IsDict(state.refined_monster)

\* stage n has run and returned
Completed(n) ==
    \E i \in 1..Len(trace) : trace[i] = n /\ (i < Len(trace) \/ raised.stage # n)

\* C15: in a run from the fresh initial state a state field is populated
\* only after the stage producing it has returned, the concept differs from
\* the initial placeholder only after generate_concept, and so a populated
\* refined_monster implies a populated monster_draft, which implies a
\* generated concept, which implies collected narrative inputs.
C15_PopulatedAfterOwnStage ==
    /\ state.user_narrative_inputs # None => Completed("get_user_inputs")
    /\ state.initial_concept # initial_state.initial_concept => Completed("generate_concept")
    /\ state.monster_draft # None => Completed("draft_monster")
    /\ state.refined_monster # None => Completed("refine_monster")
    /\ state.refined_monster # None => state.monster_draft # None
    /\ state.monster_draft # None => Completed("generate_concept")
    /\ Completed("generate_concept") => state.user_narrative_inputs # None

C15_Witness ==
    /\ Completed("draft_monster")
    /\ state.monster_draft # None
    /\ state.refined_monster = None
    /\ raised.stage = "refine_monster"

\* os.getenv("GROQ_API_KEY") is unset, empty or the placeholder
KeyMissing == env_key = <<>> \/ env_key = Placeholder

\* C16: the step of generate_amazing_monster that finds the key missing and
\* reads a blank line for it returns None with no graph node entered, no
\* stage run, no generation call made and no file written; and once the
\* function has returned nothing more happens.
C16_BlankKeyReturnsNone ==
    [][ /\ (pc = "start" /\ KeyMissing /\ stdin # <<>> /\ strip(Head(stdin)) = <<>>) =>
              /\ pc' = "returned"
              /\ result' = None
              /\ node' = "none"
              /\ trace' = <<>>
              /\ calls' = <<>>
              /\ files' = {}
              /\ state' = initial_state
        /\ pc # "returned" ]_vars

C16_Witness ==
    /\ pc = "returned"
    /\ KeyMissing
    /\ result = None
    /\ trace = <<>>
    /\ calls = <<>>
    /\ raised = NoError

\* the fields the backfill loop goes over: every required field but name
CriticalSet == {critical_fields[i] : i \in 1..Len(critical_fields)}

\* the defaults the specification names
StatedDefaults ==
    /\ default_values[K_size] = StrV(<<"M", "e", "d", "i", "u", "m">>)
    /\ default_values[K_type] = StrV(<<"M", "o", "n", "s", "t", "r", "o", "s", "i", "t", "y">>)
    /\ default_values[K_alignment] = StrV(<<"U", "n", "a", "l", "i", "g", "n", "e", "d">>)
    /\ default_values[K_armor_class] = IntV(12)
    /\ default_values[K_hit_points] = IntV(45)
    /\ default_values[K_speed] = DictV(<<"w", "a", "l", "k">> :> IntV(30))
    /\ default_values[K_abilities] =
          DictV([a \in {<<"s", "t", "r">>, <<"d", "e", "x">>, <<"c", "o", "n">>, <<"i", "n", "t">>, <<"w", "i", "s">>, <<"c", "h", "a">>} |-> IntV(10)])
    /\ Len(default_values[K_special_abilities][2]) = 1
    /\ Len(default_values[K_actions][2]) = 1
    /\ IsStr(default_values[K_lore])

\* C17 as stated: the default for each required field absent from the
\* parsed object, the parsed value for each one present in it.
C17_DefaultsForAbsentOnly ==
    DraftReturned =>
        /\ StatedDefaults
        /\ \A f \in CriticalSet :
              Get(state.monster_draft, f) =
                  IF f \in DOMAIN ExtractedDraft[2] THEN ExtractedDraft[2][f]
                  ELSE default_values[f]

\* C17, amended: the default for each required field that is absent from
\* the parsed object or holds an empty value there (empty string, zero,
\* empty list or mapping, false, null), the parsed value for each one that
\* holds a non-empty value.
C17_DefaultsForAbsentOrEmpty ==
    DraftReturned =>
        /\ StatedDefaults
        /\ \A f \in CriticalSet :
              Get(state.monster_draft, f) =
                  IF Truthy(Get(ExtractedDraft, f)) THEN ExtractedDraft[2][f]
                  ELSE default_values[f]

C17_Witness ==
    /\ DraftReturned
    /\ calls[MinOf(CallsOf("draft_monster"))].reply.content = OozeText
    /\ Get(state.monster_draft, K_type) = StrV(<<"O", "o", "z", "e">>)
    /\ Get(state.monster_draft, K_size) = StrV(<<"S", "m", "a", "l", "l">>)
    /\ Get(state.monster_draft, K_hit_points) = IntV(45)
    /\ Get(state.monster_draft, K_lore) = default_values[K_lore]

(***************************************************************************)
(* Further properties of _extract_json (specification SpecExtract).        *)
(***************************************************************************)
\* C18: every value _extract_json returns is a JSON object.
C18_ReturnsObject ==
    (x_pc = "done" /\ x_out.kind = "return") => IsDict(x_out.val)

(***************************************************************************)
(* Further properties of the run (specification Spec).                     *)
(***************************************************************************)
\* the stages that call the generation collaborator
CallingStages == {"generate_concept", "draft_monster", "refine_monster"}

\* the number of times stage s has run
Runs(s) == Cardinality({i \in 1..Len(trace) : trace[i] = s})

\* C19: no stage runs twice; get_user_narrative_inputs makes no generation
\* call; each of generate_concept, draft_monster and refine_monster makes
\* no call before it runs, at most one when it runs and exactly one when
\* it returns; the calls are made in the order of the stages; a run in
\* which all four stages returned made exactly three calls; and after a
\* stage failed it stays the last stage run, so no call follows.
C19_OneCallPerStage ==
    /\ CallsOf("get_user_inputs") = {}
    /\ \A s \in Stages : Runs(s) <= 1
    /\ \A s \in CallingStages :
          /\ Cardinality(CallsOf(s)) <= Runs(s)
          /\ Completed(s) => Cardinality(CallsOf(s)) = 1
    /\ \A k \in 1..Len(calls) : \A l \in (k + 1)..Len(calls) :
          \E i \in 1..Len(trace) : \E j \in (i + 1)..Len(trace) :
              trace[i] = calls[k].stage /\ trace[j] = calls[l].stage
    /\ (trace = StageOrder /\ raised.stage \notin Stages) => Len(calls) = 3
    /\ raised.stage \in Stages =>
          /\ trace[Len(trace)] = raised.stage
          /\ pc \in {"except", "returned"}

C19_Witness ==
    /\ trace = StageOrder
    /\ raised = NoError
    /\ pc = "returned"
    /\ IsDict(result)
    /\ Len(calls) = 3
    /\ \A k \in 1..3 : calls[k].reply.ok

\* C20: after a stage returned or raised, the snapshot it was called with
\* holds what it held before the call, the dictionaries in it included;
\* the stage's result is another snapshot.
C20_InputNotMutated ==
    [][ \A n \in Stages : StageStep(n) => passed' = state ]_vars

C20_Witness ==
    /\ trace = StageOrder
    /\ raised = NoError
    /\ IsDict(passed.monster_draft)
    /\ IsDict(passed.user_narrative_inputs)
    /\ passed.refined_monster = None
    /\ IsDict(state.refined_monster)
    /\ passed.monster_draft = state.monster_draft

\* ---------------------------------------------------------------------
\* the j-th thing on the terminal is question (j+1)/2 for odd j and the
\* read of its answer for even j
Alternates(log) ==
    \A j \in 1..Len(log) :
        log[j] = <<(IF j % 2 = 1 THEN "ask" ELSE "read"), (j + 1) \div 2>>

FiveKeys == {<<"q", "u", "e", "s", "t", "i", "o", "n", "_", "1">>, <<"q", "u", "e", "s", "t", "i", "o", "n", "_", "2">>, <<"q", "u", "e", "s", "t", "i", "o", "n", "_", "3">>, <<"q", "u", "e", "s", "t", "i", "o", "n", "_", "4">>, <<"q", "u", "e", "s", "t", "i", "o", "n", "_", "5">>}

\* C21: get_user_narrative_inputs asks question 1, reads a line, asks
\* question 2, reads a line, and so on; a question is asked only after the
\* answer before it was read.  When it returns it has asked five questions
\* and read five lines, and its result holds exactly question_1 ..
\* question_5, question_i being the i-th of the lines read, stripped.
C21_FiveQuestionsInOrder ==
    [][ StageStep("get_user_inputs") =>
          /\ Alternates(io')
          /\ Len(stdin) - Len(stdin') = Len(SelectSeq(io', LAMBDA e : e[1] = "read"))
          /\ raised' = NoError =>
                /\ Len(io') = 10
                /\ Len(stdin) >= 5
                /\ stdin' = SubSeq(stdin, 6, Len(stdin))
                /\ IsDict(state'.user_narrative_inputs)
                /\ DOMAIN state'.user_narrative_inputs[2] = FiveKeys
                /\ \A i \in 1..5 :
                      state'.user_narrative_inputs[2][<<"q", "u", "e", "s", "t", "i", "o", "n", "_">> \o <<<<"1", "2", "3", "4", "5">>[i]>>]
                          = StrV(strip(stdin[i])) ]_vars

C21_Witness ==
    /\ trace = <<"get_user_inputs">>
    /\ raised = NoError
    /\ Len(io) = 10
    /\ stdin = <<>>
    /\ state.user_narrative_inputs[2][<<"q", "u", "e", "s", "t", "i", "o", "n", "_", "1">>] = StrV(<<"a">>)
    /\ state.user_narrative_inputs[2][<<"q", "u", "e", "s", "t", "i", "o", "n", "_", "2">>] = StrV(<<"b">>)
    /\ state.user_narrative_inputs[2][<<"q", "u", "e", "s", "t", "i", "o", "n", "_", "3">>] = StrV(<<>>)
    /\ state.user_narrative_inputs[2][<<"q", "u", "e", "s", "t", "i", "o", "n", "_", "4">>] = StrV(<<"c">>)
    /\ state.user_narrative_inputs[2][<<"q", "u", "e", "s", "t", "i", "o", "n", "_", "5">>] = StrV(<<"d">>)

\* ---------------------------------------------------------------------
\* the run of the graph is over: it reached END or a stage raised
GraphLeft == node = "END" \/ raised.stage \in Stages

\* C22: when no input read and no generation call blocks for ever, a run of
\* the graph that was started is over at some point, at END or with the
\* error of a stage; no run executes more than four stages, none of them
\* twice, and a run that reached END executed the four stages in order.
C22_RunTerminates ==
    /\ (pc = "invoke") ~> GraphLeft
    /\ (pc = "start") ~> (pc \in {"returned", "escaped"})
    /\ [](/\ Len(trace) <= 4
          /\ \A i, j \in 1..Len(trace) : trace[i] = trace[j] => i = j
          /\ node = "END" => trace = StageOrder)

C22_Witness ==
    /\ pc = "returned"
    /\ node = "END"
    /\ Len(trace) = 4
    /\ raised = NoError

\* ---------------------------------------------------------------------
\* what the claim says of the exceptions raised once the graph was started:
\* they end in the except clause, and a record is returned only for a
\* dictionary with both files written
CaughtInsideTry ==
    /\ (pc = "returned" /\ raised # NoError) => result = None
    /\ (pc = "returned" /\ result # None) =>
          /\ raised = NoError
          /\ IsDict(state.refined_monster)
          /\ result = state.refined_monster
          /\ files = {"json", "md"}
    /\ raised.stage \in Stages \cup {"save"} => pc \in {"except", "returned"}

\* C23: generate_amazing_monster never lets an exception out to its caller:
\* every exception of the run is caught and the function returns None, and
\* it returns a record only when the refined monster is a dictionary and
\* the two output files were written.
C23_NeverRaises ==
    /\ pc # "escaped"
    /\ CaughtInsideTry

\* ---------------------------------------------------------------------
\* name is the synthesized name for a record parsed with type t and size z:
\* 'The ', the capitalized type when the record has one, the size when it
\* has one, ' of ' and the suffix
NamedFromParsed(name, t, z) ==
    SynthesizedForm(name,
        IF Truthy(t) /\ Truthy(z)
        THEN <<"T", "h", "e", " ">> \o capitalize(t[2]) \o <<" ">> \o z[2] \o <<" ", "o", "f", " ">>
        ELSE IF Truthy(t) THEN <<"T", "h", "e", " ">> \o capitalize(t[2]) \o <<" ", "o", "f", " ">>
        ELSE IF Truthy(z) THEN <<"T", "h", "e", " ">> \o z[2] \o <<" ", "o", "f", " ">>
        ELSE <<"T", "h", "e", " ", " ", "o", "f", " ">>)

\* C24: a synthesized name is made of the type and size the reply held, not
\* of the defaults filled in afterwards: the draft of a reply without a
\* usable name is named after its parsed type and size, a reply with neither
\* gets the name 'The  of XXX', and the draft's type and size are
\* 'Monstrosity' and 'Medium' wherever the reply had none.
C24_NameBeforeBackfill ==
    (DraftReturned /\ NamePlaceholder(ExtractedDraft)) =>
        /\ NamedFromParsed(Get(state.monster_draft, K_name)[2],
                           Get(ExtractedDraft, K_type), Get(ExtractedDraft, K_size))
        /\ ~Truthy(Get(ExtractedDraft, K_type)) =>
              Get(state.monster_draft, K_type) = StrV(<<"M", "o", "n", "s", "t", "r", "o", "s", "i", "t", "y">>)
        /\ ~Truthy(Get(ExtractedDraft, K_size)) =>
              Get(state.monster_draft, K_size) = StrV(<<"M", "e", "d", "i", "u", "m">>)
        /\ (~Truthy(Get(ExtractedDraft, K_type)) /\ ~Truthy(Get(ExtractedDraft, K_size))) =>
              /\ Len(Get(state.monster_draft, K_name)[2]) = 11
              /\ SubSeq(Get(state.monster_draft, K_name)[2], 1, 8) = <<"T", "h", "e", " ", " ", "o", "f", " ">>

C24_Witness ==
    /\ DraftReturned
    /\ DOMAIN ExtractedDraft[2] = {}
    /\ SubSeq(Get(state.monster_draft, K_name)[2], 1, 8) = <<"T", "h", "e", " ", " ", "o", "f", " ">>
    /\ Get(state.monster_draft, K_type) = StrV(<<"M", "o", "n", "s", "t", "r", "o", "s", "i", "t", "y">>)
    /\ Get(state.monster_draft, K_size) = StrV(<<"M", "e", "d", "i", "u", "m">>)

\* ---------------------------------------------------------------------
\* C25: a run started with another initial concept and given the same
\* input lines, replies and random letters sends the same prompts in the
\* same order, gets the same replies, fails at the same stage with the same
\* exception or not at all, and holds the same state from the return of
\* generate_concept on, so at END as well; before that return the two
\* states differ in the concept alone.
C25_ConceptPlaceholderUnread ==
    /\ twin.calls = calls
    /\ raised.stage \in Stages => twin.raised = raised
    /\ raised.stage \notin Stages => twin.raised = NoError
    /\ Completed("generate_concept") => twin.state = state
    /\ node = "END" => twin.state = state
    /\ ~Completed("generate_concept") =>
          /\ twin.state.initial_concept # state.initial_concept
          /\ twin.state.monster_draft = state.monster_draft
          /\ twin.state.refined_monster = state.refined_monster
          /\ twin.state.user_narrative_inputs = state.user_narrative_inputs

C25_Witness ==
    /\ twin_state.initial_concept # initial_state.initial_concept
    /\ pc = "returned"
    /\ node = "END"
    /\ Len(calls) = 3
    /\ \A i \in 1..3 : twin.calls[i].prompt = calls[i].prompt
    /\ IsDict(result)
    /\ twin.state.refined_monster = result

====
